---- MODULE Spec2Model ----
\* A model of lib/AmazonMwsResource.js: the signed request pipeline of one
\* AmazonMwsResource (_request, makeRequest and the three event handlers).
\*
\* JavaScript objects used as maps (the caller's data, the object `sorted`)
\* are sequences of <<key, value>> pairs with unique keys, in insertion
\* order, which is the order Object.keys, _.keys and qs.stringify see.
\* Values are tagged tuples: <<"str", s>>, <<"date", t>> and
\* <<"sig", secret, stringToSign>> (an HMAC, kept symbolic: two digests are
\* equal exactly when key and message are).
EXTENDS Integers, Sequences, FiniteSets, TLC

\* ---------------------------------------------------------------- bounds
MaxReq == 2         \* calls of _request in one behaviour
MaxTime == 1        \* last value of the clock read by new Date()
MaxInFlight == 1    \* requests in flight together
MaxWrap == 2        \* calls of wrapTimeout in one behaviour

\* ------------------------------------------------- configuration (getApiField)
ApiKey == "AKIA"
ApiSecret == "secret"
ApiHost == "mws.amazonservices.com"

\* getApiField('protocol'): 'http' selects the http module, anything else https.
Protocols == {"http", "https"}

\* overrideHost of the resource: null (NoHost) or a host of its own.
NoHost == ""
OverrideHosts == {NoHost, "mws-eu.amazonservices.com"}

Methods == {"GET", "POST"}
Paths == {"/Orders/2011-01-01"}

\* The keys of the model in the order Array.prototype.sort gives them
\* (UTF-16 code units: "AWS..." sorts before "Action" because "W" < "c").
KeyOrder ==
    <<"AWSAccessKeyId", "Action", "SellerId", "Signature", "SignatureMethod",
      "SignatureVersion", "Timestamp", "Version">>

Rank(k) == CHOOSE i \in 1..Len(KeyOrder) : KeyOrder[i] = k

Str(s) == <<"str", s>>
Date(t) == <<"date", t>>

\* The data objects a caller passes to _request for the first time.
CallerMaps ==
    { <<>>,
      << <<"Action", Str("ListOrders")>> >>,
      << <<"Action", Str("ListOrders")>>, <<"SellerId", Str("S1")>> >>,
      << <<"SellerId", Str("S1")>>, <<"Action", Str("ListOrders")>> >> }

\* The data of the requests followed through their transport events.
FlightMaps == { << <<"Action", Str("ListOrders")>> >> }

\* options.headers of a call: absent or empty (<<>>), a header of the caller's
\* own, or a header that _request computes too.
HeaderOptions ==
    { <<>>,
      << <<"X-Request-Id", Str("42")>> >>,
      << <<"Accept", Str("application/json")>> >> }

\* A JavaScript Error object that is none of the classified kinds.
RawError(code) == [t |-> "Error", code |-> code]

\* The causes of a transport 'error' event.
Causes == {RawError("ECONNRESET")}

\* ------------------------------------------------------------ object helpers
\* _.keys(obj)
Keys(m) == [i \in 1..Len(m) |-> m[i][1]]

KeySet(m) == {m[i][1] : i \in 1..Len(m)}

HasKey(m, k) == k \in KeySet(m)

\* obj[k]
Get(m, k) == m[CHOOSE i \in 1..Len(m) : m[i][1] = k][2]

\* obj[k] = v: an existing key keeps its place, a new key goes last.
Put(m, k, v) ==
    IF HasKey(m, k)
    THEN [i \in 1..Len(m) |-> IF m[i][1] = k THEN <<k, v>> ELSE m[i]]
    ELSE Append(m, <<k, v>>)

\* keys.sort(): the keys of ks in KeyOrder.
SortKeys(ks) ==
    LET S == {ks[i] : i \in 1..Len(ks)}
        Pos(k) == Cardinality({j \in S : Rank(j) < Rank(k)}) + 1
    IN  [i \in 1..Cardinality(S) |-> CHOOSE k \in S : Pos(k) = i]

\* _.reduce(_.keys(requestData).sort(), function (m, k) {m[k] = requestData[k]}, {})
Sorted(requestData) ==
    LET ks == SortKeys(Keys(requestData))
    IN  [i \in 1..Len(ks) |-> <<ks[i], Get(requestData, ks[i])>>]

\* qs.stringify(obj): "k=v" for each own key, in the object's key order.
QsStringify(m) == [i \in 1..Len(m) |-> <<m[i][1], "=", m[i][2]>>]

\* utils.stringifyRequestData(data): the form-encoded key=value pairs of data.
StringifyRequestData(data) == QsStringify(data)

\* crypto.createHmac("sha256", secret).update(s).digest("base64")
Hmac(secret, s) == <<"sig", secret, s>>

\* crypto.createHash('md5').update(s).digest('base64')
Md5(s) == <<"md5", s>>

\* ['GET', host, path, qs.stringify(sorted)].join("\n")
StringToSign(host, path, sorted) == <<"GET", host, path, QsStringify(sorted)>>

\* The signing block with its method test lost.
SignsEveryMethod(method) == TRUE

\* `if (method === 'GET')`: the signing block runs for GET alone.
SignsMethod(method) == method = "GET"

\* The five assignments that precede the sort.
Inject(requestData, t) ==
    Put(Put(Put(Put(Put(requestData,
        "AWSAccessKeyId", Str(ApiKey)),
        "Timestamp", Date(t)),
        "SignatureVersion", Str("2")),
        "SignatureMethod", Str("HmacSHA256")),
        "Version", Str("2011-07-01"))

\* What the signing block signs: every key of requestData after the five
\* assignments, a Signature left by an earlier call included.
SignedString(requestData, path, t) ==
    StringToSign(ApiHost, path, Sorted(Inject(requestData, t)))

\* The signing block as a whole: requestData after it has run.
Sign(requestData, path, t) ==
    Put(Inject(requestData, t), "Signature",
        Hmac(ApiSecret, SignedString(requestData, path, t)))

\* data as _request leaves it (requestData aliases data).
DataAfter(method, data, path, t) ==
    IF SignsMethod(method) THEN Sign(data, path, t) ELSE data

\* --------------------------------------------------------- response bodies
\* The bodies a server sends, each a sequence of chunks as 'data' delivers them.
Docs == {"ok", "okLast", "err", "errEmpty", "notXml", "badJson", "null", "number"}

\* Bodies xml2json.toJson converts when it has them whole.
XmlDocs == Docs \ {"notXml"}

ChunksOf(doc) ==
    IF doc \in {"ok", "err"} THEN << <<doc, 1>>, <<doc, 2>> >> ELSE << <<doc, 1>> >>

IsStrictPrefix(s, t) == Len(s) < Len(t) /\ s = SubSeq(t, 1, Len(s))

\* JavaScript values that reach the callback.
Null == [t |-> "null"]
Undefined == [t |-> "undefined"]
JStr(s) == [t |-> "string", s |-> s]
JNum(n) == [t |-> "number", n |-> n]
\* An object: its own properties in order, each with its attributes.
JObject(props) == [t |-> "object", props |-> props]
Prop(k, v) == [key |-> k, value |-> v, enumerable |-> TRUE, writable |-> TRUE,
               configurable |-> TRUE]
\* The http.IncomingMessage `res` of request r.
Res(r) == [t |-> "IncomingMessage", req |-> r]
\* `response` while it still holds text.
Raw(chunks) == [t |-> "raw", chunks |-> chunks]
JsonText(doc) == [t |-> "json", doc |-> doc]

\* Error.AmazonMwsConnectionError({message, detail})
ConnectionError(message, detail) ==
    [t |-> "AmazonMwsConnectionError", message |-> message, detail |-> detail]

\* Error.AmazonMwsAPIError({message, response, exception})
APIError(response, exception) ==
    [t |-> "AmazonMwsAPIError",
     message |-> "Invalid JSON received from the AmazonMws API",
     response |-> response, exception |-> exception]

\* xml2json.toJson(response): the JSON text of a whole XML body. A body cut
\* short is either rejected or converted as far as it goes (`lenient`), a
\* body that is not XML is rejected.
XmlToJson(chunks, lenient) ==
    IF \E d \in XmlDocs : chunks = ChunksOf(d)
    THEN [ok |-> TRUE, text |-> JsonText(CHOOSE d \in XmlDocs : chunks = ChunksOf(d))]
    ELSE IF lenient /\ \E d \in XmlDocs : IsStrictPrefix(chunks, ChunksOf(d))
    THEN [ok |-> TRUE, text |-> JsonText("partial")]
    ELSE [ok |-> FALSE, text |-> JsonText("")]

\* JSON.parse(response)
JsonParse(text) ==
    CASE text.doc = "badJson" -> [ok |-> FALSE, value |-> Undefined]
      [] text.doc = "ok" ->
            [ok |-> TRUE, value |-> JObject(<< Prop("ListOrdersResponse", JObject(<<>>)) >>)]
      [] text.doc = "okLast" ->
            [ok |-> TRUE, value |-> JObject(<< Prop("lastResponse", JStr("x")) >>)]
      [] text.doc = "err" ->
            [ok |-> TRUE, value |->
                JObject(<< Prop("ErrorResponse", JObject(<< Prop("Error", JStr("AccessDenied")) >>)) >>)]
      [] text.doc = "errEmpty" ->
            [ok |-> TRUE, value |-> JObject(<< Prop("ErrorResponse", JStr("")) >>)]
      [] text.doc = "null" -> [ok |-> TRUE, value |-> Null]
      [] text.doc = "number" -> [ok |-> TRUE, value |-> JNum(5)]
      [] OTHER -> [ok |-> TRUE, value |-> JObject(<<>>)]

HasProp(v, k) == v.t = "object" /\ \E i \in 1..Len(v.props) : v.props[i].key = k

\* v[k] for a v that is neither null nor undefined.
GetProp(v, k) ==
    IF HasProp(v, k)
    THEN v.props[CHOOSE i \in 1..Len(v.props) : v.props[i].key = k].value
    ELSE Undefined

\* The test `if (v)`.
Truthy(v) ==
    CASE v.t = "object" -> TRUE
      [] v.t = "string" -> v.s # ""
      [] v.t = "number" -> v.n # 0
      [] OTHER -> FALSE

\* The plain assignment obj[k] = v in place of Object.defineProperty.
DefineByAssignment(obj, k, v) ==
    IF HasProp(obj, k)
    THEN JObject([i \in 1..Len(obj.props) |->
            IF obj.props[i].key = k THEN [obj.props[i] EXCEPT !.value = v]
            ELSE obj.props[i]])
    ELSE JObject(Append(obj.props, Prop(k, v)))

\* Object.defineProperty(obj, k, {enumerable: false, writable: false, value: v})
DefineHidden(obj, k, v) ==
    IF HasProp(obj, k)
    THEN JObject([i \in 1..Len(obj.props) |->
            IF obj.props[i].key = k
            THEN [obj.props[i] EXCEPT !.value = v, !.enumerable = FALSE, !.writable = FALSE]
            ELSE obj.props[i]])
    ELSE JObject(Append(obj.props,
            [key |-> k, value |-> v, enumerable |-> FALSE, writable |-> FALSE,
             configurable |-> FALSE]))

\* One invocation of the caller's callback.
Call(err, result) == [err |-> err, result |-> result]

\* ------------------------------------------------------------------ state
VARIABLES
    now,    \* the clock new Date() reads
    heap,   \* the data objects callers hold, by reference
    reqs,   \* one record per call of _request, in call order
    wraps   \* one record per call of wrapTimeout, in call order

vars == <<now, heap, reqs, wraps>>

ReqIds == 1..Len(reqs)

\* The headers _request computes before options.headers is merged in.
Headers(requestData) ==
    << <<"Accept", Str("text/xml")>>,
       <<"Content-Type", Str("text/xml")>>,
       <<"Content-MD5", Md5(requestData)>> >>

\* params before makeRequest has run.
NoParams == [host |-> "", path |-> [base |-> "", query |-> <<>>, hasQuery |-> FALSE],
             method |-> "", headers |-> <<>>]

\* The closure state of one call of _request and of its makeRequest.
NewRequest(method, path, obj, data, t) ==
    LET after == DataAfter(method, data, path, t)
        requestData == StringifyRequestData(after)
    IN  [ method |-> method, path |-> path, obj |-> obj,
          input |-> data,           \* data as the caller passed it
          after |-> after,          \* data when _request returns
          ts |-> t,
          signed |-> IF SignsMethod(method) THEN SignedString(data, path, t) ELSE <<>>,
          requestData |-> requestData,
          headers |-> Headers(requestData),
          options |-> <<>>,         \* options.headers
          pc |-> "userAgent",       \* "userAgent": getClientUserAgent pending; "open": req exists
          insecure |-> FALSE,       \* isInsecureConnection
          params |-> NoParams,      \* what http(s).request was given
          socket |-> "none",        \* "none" | "connecting" | "reused"
          tcp |-> FALSE,            \* the socket has emitted 'connect'
          secure |-> FALSE,         \* the socket has emitted 'secureConnect'
          written |-> <<>>,         \* the bodies given to req.write, each followed by req.end
          isAborted |-> FALSE,      \* req._isAborted
          timedOut |-> FALSE,       \* the 'timeout' listener has run
          errored |-> FALSE,        \* the 'error' listener has run
          res |-> "none",           \* "none" | "open" | "ended"
          doc |-> "",               \* the body the server is sending
          response |-> <<>>,        \* the chunks accumulated in `response`
          calls |-> <<>>,           \* invocations of callback, in order
          thrown |-> 0,             \* exceptions of the pipeline's own that left a handler
          rethrown |-> 0 ]          \* exceptions of the callback that left a handler

Init ==
    /\ now = 0
    /\ heap = <<>>
    /\ reqs = <<>>
    /\ wraps = <<>>

\* Time passes.
Tick ==
    /\ now < MaxTime
    /\ now' = now + 1
    /\ UNCHANGED <<heap, reqs, wraps>>

\* _request(method, path, data, ...) with a data object the caller built for
\* this call: lines 176-213 up to the call of getClientUserAgent.
RequestFresh(method, path, data) ==
    /\ heap' = Append(heap, DataAfter(method, data, path, now))
    /\ reqs' = Append(reqs, NewRequest(method, path, Len(heap) + 1, data, now))
    /\ UNCHANGED <<now, wraps>>

\* _request with a data object that an earlier call has already been given.
RequestReuse(method, path, obj) ==
    /\ obj \in 1..Len(heap)
    /\ heap' = [heap EXCEPT ![obj] = DataAfter(method, heap[obj], path, now)]
    /\ reqs' = Append(reqs, NewRequest(method, path, obj, heap[obj], now))
    /\ UNCHANGED <<now, wraps>>

\* _request with options.headers given.
RequestWithOptions(method, path, data, options) ==
    /\ heap' = Append(heap, DataAfter(method, data, path, now))
    /\ reqs' = Append(reqs, [NewRequest(method, path, Len(heap) + 1, data, now)
                                EXCEPT !.options = options])
    /\ UNCHANGED <<now, wraps>>

\* _request with data undefined or null. For GET the first assignment of the
\* signing block (line 180) throws a TypeError out of _request; otherwise
\* `data || {}` is serialized. obj = 0: the caller holds no data object.
RequestNoData(method, path) ==
    /\ reqs' = Append(reqs,
            IF SignsMethod(method)
            THEN [NewRequest(method, path, 0, <<>>, now)
                    EXCEPT !.after = <<>>, !.signed = <<>>, !.requestData = <<>>,
                           !.headers = <<>>, !.pc = "thrown", !.thrown = 1]
            ELSE NewRequest(method, path, 0, <<>>, now))
    /\ UNCHANGED <<now, heap, wraps>>

\* A merge that lets the caller's map stand in for the computed headers.
ObjectAssignReplace(headers, more) == IF more = <<>> THEN headers ELSE more

\* --------------------------------------------------------------- handlers
\* objectAssign(headers, more): every entry of more assigned to headers.
RECURSIVE ObjectAssign(_, _)
ObjectAssign(headers, more) ==
    IF more = <<>> THEN headers
    ELSE ObjectAssign(Put(headers, more[1][1], more[1][2]), Tail(more))

\* self.overrideHost || self._AmazonMws.getApiField('host')
ParamsHost(overrideHost) == IF overrideHost # NoHost THEN overrideHost ELSE ApiHost

\* params.path: for GET, path + '?' + requestData.
ParamsPath(method, path, requestData) ==
    IF method = "GET"
    THEN [base |-> path, query |-> requestData, hasQuery |-> TRUE]
    ELSE [base |-> path, query |-> <<>>, hasQuery |-> FALSE]

\* The callback of getClientUserAgent: options.headers is merged over
\* headers, and makeRequest creates req from params, arms the timeout and
\* registers the 'response', 'error' and 'socket' listeners.
MakeRequest(q, protocol, overrideHost) ==
    LET headers == ObjectAssign(q.headers, q.options)
    IN  [q EXCEPT !.pc = "open",
                  !.headers = headers,
                  !.insecure = (protocol = "http"),
                  !.params = [host |-> ParamsHost(overrideHost),
                              path |-> ParamsPath(q.method, q.path, q.requestData),
                              method |-> q.method,
                              headers |-> headers]]

\* An error handler that hands the transport's error to the callback as it is.
ErrorHandlerUnwrapped(q, error) ==
    IF q.isAborted
    THEN [q EXCEPT !.errored = TRUE]
    ELSE [q EXCEPT !.errored = TRUE, !.calls = Append(@, Call(error, Null))]

\* The function _errorHandler returns.
ErrorHandler(q, error) ==
    IF q.isAborted
    THEN [q EXCEPT !.errored = TRUE]
    ELSE [q EXCEPT !.errored = TRUE,
                   !.calls = Append(@, Call(
                       ConnectionError("An error occurred with our connection to AmazonMws",
                                       error),
                       Null))]

\* req.abort(): the transport may emit 'error' on req before abort returns.
Abort(q, syncError) ==
    IF syncError /\ ~q.errored THEN ErrorHandler(q, RawError("ECONNRESET")) ELSE q

\* The callback.call of _timeoutHandler.
TimeoutCallback(q) ==
    [q EXCEPT !.timedOut = TRUE,
              !.calls = Append(@, Call(
                  ConnectionError("Request aborted due to timeout being reached",
                                  RawError("ETIMEDOUT")),
                  Null))]

\* A timeout handler that aborts first and sets req._isAborted afterwards.
TimeoutHandlerAbortFirst(q, syncError) ==
    TimeoutCallback([Abort(q, syncError) EXCEPT !.isAborted = TRUE])

\* A timeout handler that aborts and tells nobody.
TimeoutHandlerSilent(q, syncError) ==
    [Abort([q EXCEPT !.isAborted = TRUE], syncError) EXCEPT !.timedOut = TRUE]

\* The function _timeoutHandler returns: req._isAborted = true, req.abort(),
\* callback.
TimeoutHandler(q, syncError) ==
    TimeoutCallback(Abort([q EXCEPT !.isAborted = TRUE], syncError))

\* The function _responseHandler returns, up to the registration of the
\* 'data' and 'end' listeners.
ResponseHandler(q, doc) == [q EXCEPT !.res = "open", !.doc = doc, !.response = <<>>]

\* The 'data' listener: response += chunk.
DataListener(q, chunk) == [q EXCEPT !.response = Append(@, chunk)]

\* The callback.call in the catch block of the 'end' listener.
Caught(q, response, e) ==
    [q EXCEPT !.res = "ended", !.calls = Append(@, Call(APIError(response, e), Null))]

\* A callback invocation outside any try block: what the callback throws
\* leaves the handler.
Escapes(q, throws) == IF throws THEN [q EXCEPT !.rethrown = @ + 1] ELSE q

\* `return callback.call(self, response.ErrorResponse, null)` inside the try
\* block: what the callback throws is caught, and the catch block invokes
\* the callback again, with an APIError that carries the parsed object.
UpstreamError(q, response, throws) ==
    LET called == [q EXCEPT !.res = "ended",
                            !.calls = Append(@, Call(GetProp(response, "ErrorResponse"), Null))]
    IN  IF throws
        THEN Escapes(Caught(called, response, RawError("callback")), throws)
        ELSE called

\* The 'end' listener of the response of request r; `throws`: the caller's
\* callback throws when it is invoked.
EndListener(q, r, lenient, throws) ==
    LET json == XmlToJson(q.response, lenient)
        parsed == JsonParse(json.text)
        response == parsed.value
    IN  IF ~json.ok THEN Escapes(Caught(q, Raw(q.response), RawError("xml2json")), throws)
        ELSE IF ~parsed.ok
        THEN Escapes(Caught(q, json.text, RawError("SyntaxError")), throws)
        ELSE IF response.t = "null"
        THEN Escapes(Caught(q, response, RawError("TypeError")), throws)
        ELSE IF Truthy(GetProp(response, "ErrorResponse"))
        THEN UpstreamError(q, response, throws)
        ELSE IF response.t # "object"
        THEN [q EXCEPT !.res = "ended", !.thrown = @ + 1]
        ELSE Escapes([q EXCEPT !.res = "ended",
                               !.calls = Append(@, Call(Null,
                                   DefineHidden(response, "lastResponse", Res(r))))],
                     throws)

\* A listener registered for 'connect' whatever the protocol.
ReadyEventConnect(insecure) == "connect"

\* isInsecureConnection ? 'connect' : 'secureConnect'
ReadyEvent(insecure) == IF insecure THEN "connect" ELSE "secureConnect"

\* The listener the 'socket' listener registers: req.write(requestData); req.end().
ReadyListener(q) == [q EXCEPT !.written = Append(@, q.requestData)]

\* The socket of q emits `event`.
SocketEmits(q, event) == IF event = ReadyEvent(q.insecure) THEN ReadyListener(q) ELSE q

\* ---------------------------------------------------------------- actions
GotUserAgent(r, protocol, overrideHost) ==
    /\ reqs[r].pc = "userAgent"
    /\ reqs' = [reqs EXCEPT ![r] = MakeRequest(@, protocol, overrideHost)]
    /\ UNCHANGED <<now, heap, wraps>>

\* The timer armed by req.setTimeout fires; its listener is registered once.
Timeout(r, syncError) ==
    /\ reqs[r].pc = "open"
    /\ ~reqs[r].timedOut
    /\ reqs' = [reqs EXCEPT ![r] = TimeoutHandler(@, syncError)]
    /\ UNCHANGED <<now, heap, wraps>>

\* The transport emits 'error' on req; it reports the failure of a request once.
ErrorEvent(r, error) ==
    /\ reqs[r].pc = "open"
    /\ ~reqs[r].errored
    /\ reqs' = [reqs EXCEPT ![r] = ErrorHandler(@, error)]
    /\ UNCHANGED <<now, heap, wraps>>

\* The transport emits 'response' on req; an aborted req starts no response.
ResponseEvent(r, doc) ==
    /\ reqs[r].pc = "open"
    /\ reqs[r].res = "none"
    /\ ~reqs[r].isAborted
    /\ reqs' = [reqs EXCEPT ![r] = ResponseHandler(@, doc)]
    /\ UNCHANGED <<now, heap, wraps>>

\* res emits 'data' with the next chunk of the body.
DataEvent(r) ==
    /\ reqs[r].res = "open"
    /\ Len(reqs[r].response) < Len(ChunksOf(reqs[r].doc))
    /\ reqs' = [reqs EXCEPT ![r] =
                    DataListener(@, ChunksOf(reqs[r].doc)[Len(reqs[r].response) + 1])]
    /\ UNCHANGED <<now, heap, wraps>>

\* res emits 'end': after the whole body, or earlier when the connection is
\* cut (by the server or by req.abort()).
EndEvent(r, lenient, throws) ==
    /\ reqs[r].res = "open"
    /\ reqs' = [reqs EXCEPT ![r] = EndListener(@, r, lenient, throws)]
    /\ UNCHANGED <<now, heap, wraps>>

\* req emits 'socket': the agent assigns a socket that is still connecting,
\* or one that is connected already and will emit no readiness event.
SocketEvent(r, reused) ==
    /\ reqs[r].pc = "open"
    /\ reqs[r].socket = "none"
    /\ reqs' = [reqs EXCEPT ![r].socket = IF reused THEN "reused" ELSE "connecting"]
    /\ UNCHANGED <<now, heap, wraps>>

\* The socket emits 'connect'. The listener sits on the socket, not on req:
\* nothing in the pipeline removes it when req is aborted.
ConnectEvent(r) ==
    /\ reqs[r].socket = "connecting"
    /\ ~reqs[r].tcp
    /\ reqs' = [reqs EXCEPT ![r] = SocketEmits([@ EXCEPT !.tcp = TRUE], "connect")]
    /\ UNCHANGED <<now, heap, wraps>>

\* A TLS socket emits 'secureConnect' after 'connect'.
SecureConnectEvent(r) ==
    /\ reqs[r].socket = "connecting"
    /\ ~reqs[r].insecure
    /\ reqs[r].tcp
    /\ ~reqs[r].secure
    /\ reqs' = [reqs EXCEPT ![r] = SocketEmits([@ EXCEPT !.secure = TRUE], "secureConnect")]
    /\ UNCHANGED <<now, heap, wraps>>

\* The request pipeline with its transport: requests in flight together.
Next ==
    \/ /\ Len(reqs) < MaxInFlight
       /\ \E method \in Methods, path \in Paths, data \in FlightMaps :
              RequestFresh(method, path, data)
    \/ \E r \in ReqIds : GotUserAgent(r, "https", NoHost)
    \/ \E r \in ReqIds, syncError \in BOOLEAN : Timeout(r, syncError)
    \/ \E r \in ReqIds, error \in Causes : ErrorEvent(r, error)
    \/ \E r \in ReqIds, doc \in Docs : ResponseEvent(r, doc)
    \/ \E r \in ReqIds : DataEvent(r)
    \/ \E r \in ReqIds, lenient \in BOOLEAN : EndEvent(r, lenient, FALSE)

Spec == Init /\ [][Next]_vars

\* The same lifecycle with callers whose callback may throw.
NextThrowing ==
    \/ Next
    \/ \E r \in ReqIds, lenient \in BOOLEAN : EndEvent(r, lenient, TRUE)

SpecThrowing == Init /\ [][NextThrowing]_vars

\* The pipeline up to the request body: the call, makeRequest under either
\* protocol and host setting, the socket and its readiness events, the
\* timeout and the transport error.
NextConn ==
    \/ /\ Len(reqs) < MaxInFlight
       /\ \E method \in Methods, path \in Paths, data \in FlightMaps,
             options \in HeaderOptions :
              RequestWithOptions(method, path, data, options)
    \/ \E r \in ReqIds, protocol \in Protocols, overrideHost \in OverrideHosts :
            GotUserAgent(r, protocol, overrideHost)
    \/ \E r \in ReqIds, reused \in BOOLEAN : SocketEvent(r, reused)
    \/ \E r \in ReqIds : ConnectEvent(r)
    \/ \E r \in ReqIds : SecureConnectEvent(r)
    \/ \E r \in ReqIds, syncError \in BOOLEAN : Timeout(r, syncError)
    \/ \E r \in ReqIds, error \in Causes : ErrorEvent(r, error)

SpecConn == Init /\ [][NextConn]_vars

\* The connection of a request whose caller passes no headers, for the
\* question of whether the caller hears back: the call, makeRequest, the socket and its
\* readiness events, the timeout and the transport error.
NextLive ==
    \/ /\ Len(reqs) < MaxInFlight
       /\ \E method \in Methods, path \in Paths, data \in FlightMaps :
              RequestFresh(method, path, data)
    \/ \E r \in ReqIds, protocol \in Protocols, overrideHost \in OverrideHosts :
            GotUserAgent(r, protocol, overrideHost)
    \/ \E r \in ReqIds, reused \in BOOLEAN : SocketEvent(r, reused)
    \/ \E r \in ReqIds : ConnectEvent(r)
    \/ \E r \in ReqIds : SecureConnectEvent(r)
    \/ \E r \in ReqIds, syncError \in BOOLEAN : Timeout(r, syncError)
    \/ \E r \in ReqIds, error \in Causes : ErrorEvent(r, error)

\* The timer req.setTimeout arms runs down unless the handler has run.
SpecLive ==
    /\ Init
    /\ [][NextLive]_vars
    /\ \A r \in 1..MaxInFlight :
          WF_vars(\E syncError \in BOOLEAN : r \in ReqIds /\ Timeout(r, syncError))

\* _request alone, called again and again by one caller as time passes.
NextSign ==
    \/ /\ Len(reqs) < MaxReq
       /\ \E method \in Methods, path \in Paths, data \in CallerMaps :
              RequestFresh(method, path, data)
    \/ /\ Len(reqs) < MaxReq
       /\ \E method \in Methods, path \in Paths, obj \in 1..Len(heap) :
              RequestReuse(method, path, obj)
    \/ /\ Len(reqs) < MaxReq
       /\ \E method \in Methods, path \in Paths : RequestNoData(method, path)
    \/ Tick

SpecSign == Init /\ [][NextSign]_vars

\* ------------------------------------------------------------- wrapTimeout
\* The promises handed to wrapTimeout: pending, or settled already.
Pending == [state |-> "pending", value |-> Undefined]
Resolved(res) == [state |-> "resolved", value |-> res]
Rejected(err) == [state |-> "rejected", value |-> err]
Settlements ==
    {Resolved(JStr("orders")), Resolved(Null), Rejected(RawError("ECONNRESET"))}
Promises == {Pending} \cup Settlements

\* wrapTimeout(promise, callback): with a callback, promise.then(onFulfilled,
\* onRejected) is returned, and the reaction is queued at once when the
\* promise is settled already; without one, promise itself.
WrapTimeout(promise, callback) ==
    [ promise |-> promise,
      callback |-> callback,        \* a callback was given
      returned |-> IF callback THEN "then" ELSE "promise",
      reaction |-> IF callback /\ promise.state # "pending" THEN "queued" ELSE "none",
      timer |-> "none",             \* "none" | "armed" | "fired"
      calls |-> <<>> ]

\* The function setTimeout is given: callback(null, res) or callback(err, null).
Deferred(w) ==
    [w EXCEPT !.timer = "fired",
              !.calls = Append(@, IF w.promise.state = "resolved"
                                  THEN Call(Null, w.promise.value)
                                  ELSE Call(w.promise.value, Null))]

\* A reaction that invokes the callback itself, inside the promise job.
ReactionInPromiseStack(w) == [Deferred(w) EXCEPT !.reaction = "run"]

\* onFulfilled / onRejected: setTimeout(function () { callback(...) }, 0).
Reaction(w) == [w EXCEPT !.reaction = "run", !.timer = "armed"]

\* A call of wrapTimeout.
WrapTimeoutCall(promise, callback) ==
    /\ Len(wraps) < MaxWrap
    /\ wraps' = Append(wraps, WrapTimeout(promise, callback))
    /\ UNCHANGED <<now, heap, reqs>>

\* The promise of wrap w is settled by its owner.
Settle(w, settlement) ==
    /\ wraps[w].promise.state = "pending"
    /\ wraps' = [wraps EXCEPT ![w].promise = settlement,
                              ![w].reaction = IF wraps[w].callback THEN "queued" ELSE "none"]
    /\ UNCHANGED <<now, heap, reqs>>

\* The promise job of wrap w runs.
ReactionJob(w) ==
    /\ wraps[w].reaction = "queued"
    /\ wraps' = [wraps EXCEPT ![w] = Reaction(@)]
    /\ UNCHANGED <<now, heap, reqs>>

\* The timer of wrap w runs out, in a turn of its own.
TimerJob(w) ==
    /\ wraps[w].timer = "armed"
    /\ wraps' = [wraps EXCEPT ![w] = Deferred(@)]
    /\ UNCHANGED <<now, heap, reqs>>

WrapIds == 1..Len(wraps)

NextWrap ==
    \/ \E promise \in Promises, callback \in BOOLEAN : WrapTimeoutCall(promise, callback)
    \/ \E w \in WrapIds, settlement \in Settlements : Settle(w, settlement)
    \/ \E w \in WrapIds : ReactionJob(w)
    \/ \E w \in WrapIds : TimerJob(w)

SpecWrap == Init /\ [][NextWrap]_vars

\* ------------------------------------------------------------------ claims
\* <<r, i>>: the i-th invocation of the callback of request r.
AllCalls == UNION {{<<r, i>> : i \in 1..Len(reqs[r].calls)} : r \in ReqIds}

\* A terminal event (timeout, 'error' or 'end') has been handled for q.
Terminated(q) == q.timedOut \/ q.errored \/ q.res = "ended"

IsTimeoutError(e) ==
    e.t = "AmazonMwsConnectionError" /\ e.detail = RawError("ETIMEDOUT")

\* C1: whatever the order of the timeout, 'error' and 'response'/'end'
\* events of a request, its callback is invoked exactly once.
C1_ExactlyOnce ==
    \A r \in ReqIds : Terminated(reqs[r]) => Len(reqs[r].calls) = 1

\* C2: a request on which a timeout and a transport error both occur, in
\* either order, calls back exactly once, with a ConnectionError whose
\* detail carries ETIMEDOUT.
C2_TimeoutRacesError ==
    \A r \in ReqIds :
        (reqs[r].timedOut /\ reqs[r].errored /\ reqs[r].res = "none")
            => /\ Len(reqs[r].calls) = 1
               /\ IsTimeoutError(reqs[r].calls[1].err)
               /\ reqs[r].calls[1].result = Null

\* The value the accumulated body of q decodes to.
Decoded(q) == JsonParse(XmlToJson(q.response, TRUE).text)

\* C3: every callback invocation is (null, decoded response) or (error,
\* null) with error a ConnectionError, an APIError or the parsed
\* ErrorResponse body; never both null, never both non-null, never a raw
\* transport or parser exception.
C3_CallbackShape ==
    \A c \in AllCalls :
        LET q == reqs[c[1]]
            call == q.calls[c[2]]
        IN  \/ /\ call.err = Null
               /\ call.result.t = "object"
            \/ /\ call.result = Null
               /\ \/ call.err.t \in {"AmazonMwsConnectionError", "AmazonMwsAPIError"}
                  \/ /\ HasProp(Decoded(q).value, "ErrorResponse")
                     /\ call.err = GetProp(Decoded(q).value, "ErrorResponse")
                     /\ call.err.t \in {"object", "string", "number"}

\* A request that delivered a result and, later, a timeout error: both shapes.
C3_Witness ==
    \E r \in ReqIds :
        /\ Len(reqs[r].calls) = 2
        /\ reqs[r].calls[1].err = Null
        /\ reqs[r].calls[1].result.t = "object"
        /\ IsTimeoutError(reqs[r].calls[2].err)

InjectedKeys ==
    {"AWSAccessKeyId", "Timestamp", "SignatureVersion", "SignatureMethod",
     "Version", "Signature"}

\* The keys of a serialized parameter string, in order.
WireKeys(requestData) == [i \in 1..Len(requestData) |-> requestData[i][1]]

\* C4: a request whose method is not GET leaves the caller's data object as
\* it was, and its serialized body holds an injected field only if the
\* caller's data held it.
C4_NonGetUntouched ==
    \A r \in ReqIds :
        reqs[r].method # "GET"
            => /\ reqs[r].after = reqs[r].input
               /\ \A k \in InjectedKeys :
                      (\E i \in 1..Len(reqs[r].requestData) :
                            reqs[r].requestData[i][1] = k)
                          => HasKey(reqs[r].input, k)

\* A POST of a data object that an earlier GET has signed.
C4_Witness ==
    \E r \in ReqIds :
        /\ reqs[r].method = "POST"
        /\ HasKey(reqs[r].input, "Action")
        /\ HasKey(reqs[r].input, "Signature")
        /\ heap[reqs[r].obj] = reqs[r].input

\* obj without its key k.
Without(m, k) == SelectSeq(m, LAMBDA e : e[1] # k)

\* C5: the Signature of every GET request is computed over the key-sorted
\* serialization of all its parameters except Signature, joined with
\* method, host and path.
C5_SignedWithoutSignature ==
    \A r \in ReqIds :
        (reqs[r].method = "GET" /\ reqs[r].pc # "thrown")
            => reqs[r].signed =
                  StringToSign(ApiHost, reqs[r].path,
                      Sorted(Without(Inject(reqs[r].input, reqs[r].ts), "Signature")))

IsSorted(ks) == \A i \in 1..Len(ks) - 1 : Rank(ks[i]) < Rank(ks[i + 1])

\* C6: two GET requests whose data differ in insertion order alone get the
\* same Signature and the same key order in the string that is sent, the
\* keys in lexicographic order.
C6_KeyOrderInvariance ==
    \A r1, r2 \in ReqIds :
        (/\ reqs[r1].method = "GET" /\ reqs[r2].method = "GET"
         /\ reqs[r1].path = reqs[r2].path /\ reqs[r1].ts = reqs[r2].ts
         /\ reqs[r1].input # reqs[r2].input
         /\ {reqs[r1].input[i] : i \in 1..Len(reqs[r1].input)}
              = {reqs[r2].input[i] : i \in 1..Len(reqs[r2].input)})
            => /\ Get(reqs[r1].after, "Signature") = Get(reqs[r2].after, "Signature")
               /\ WireKeys(reqs[r1].requestData) = WireKeys(reqs[r2].requestData)
               /\ IsSorted(WireKeys(reqs[r1].requestData))

\* C7: GET requests with the same data object, path and timestamp get the
\* same Signature, the second and later calls included.
C7_SignatureDeterminism ==
    \A r1, r2 \in ReqIds :
        (/\ reqs[r1].method = "GET" /\ reqs[r2].method = "GET"
         /\ reqs[r1].obj = reqs[r2].obj /\ reqs[r1].obj # 0
         /\ reqs[r1].path = reqs[r2].path /\ reqs[r1].ts = reqs[r2].ts)
            => Get(reqs[r1].after, "Signature") = Get(reqs[r2].after, "Signature")

\* C8: when the accumulated body decodes to an object with an ErrorResponse
\* field, the callback gets that ErrorResponse as error with a null result,
\* and no success result is delivered.
C8_ErrorResponsePassthrough ==
    \A r \in ReqIds :
        LET q == reqs[r] IN
        (/\ q.res = "ended"
         /\ XmlToJson(q.response, FALSE).ok
         /\ Decoded(q).ok
         /\ HasProp(Decoded(q).value, "ErrorResponse"))
            => /\ \E i \in 1..Len(q.calls) :
                     q.calls[i] = Call(GetProp(Decoded(q).value, "ErrorResponse"), Null)
               /\ \A i \in 1..Len(q.calls) : q.calls[i].err # Null

\* C9: when the XML-to-JSON conversion or the JSON parse of the accumulated
\* body fails, the callback gets (APIError, null), the APIError carrying
\* the body as received, and nothing is thrown out of the 'end' listener.
C9_MalformedBody ==
    \A r \in ReqIds :
        LET q == reqs[r] IN
        (/\ q.res = "ended"
         /\ \/ ~XmlToJson(q.response, TRUE).ok
            \/ XmlToJson(q.response, FALSE).ok /\ ~Decoded(q).ok)
            => /\ q.thrown = 0
               /\ \E i \in 1..Len(q.calls) :
                     /\ q.calls[i].err.t = "AmazonMwsAPIError"
                     /\ q.calls[i].err.response = Raw(q.response)
                     /\ q.calls[i].result = Null

\* C10: every success result carries a lastResponse property whose value is
\* the transport response of the same request, not enumerable and not
\* writable.
C10_LastResponse ==
    \A c \in AllCalls :
        LET call == reqs[c[1]].calls[c[2]] IN
        call.err = Null
            => \E i \in 1..Len(call.result.props) :
                  /\ call.result.props[i].key = "lastResponse"
                  /\ call.result.props[i].value = Res(c[1])
                  /\ ~call.result.props[i].enumerable
                  /\ ~call.result.props[i].writable
                  /\ \A j \in 1..Len(call.result.props) :
                        call.result.props[j].key = "lastResponse" => j = i

\* A result delivered for a body that had a lastResponse element of its own.
C10_Witness ==
    \E c \in AllCalls :
        /\ reqs[c[1]].calls[c[2]].err = Null
        /\ reqs[c[1]].doc = "okLast"
        /\ Len(reqs[c[1]].calls[c[2]].result.props) = 1


\* The three header names _request computes.
ComputedHeaderNames == {"Accept", "Content-Type", "Content-MD5"}

\* C11: the serialized parameter string is in exactly one position: a GET
\* carries it as the query of the path and writes no body; every other
\* method writes it as the body and leaves the path as it was given.
C11_OnePosition ==
    \A r \in ReqIds :
        LET q == reqs[r] IN
        q.pc = "open"
            => IF q.method = "GET"
               THEN /\ q.params.path = [base |-> q.path, query |-> q.requestData,
                                        hasQuery |-> TRUE]
                    /\ q.written = <<>>
               ELSE /\ q.params.path = [base |-> q.path, query |-> <<>>,
                                        hasQuery |-> FALSE]
                    /\ \A i \in 1..Len(q.written) : q.written[i] = q.requestData

\* C12: whatever options.headers the caller supplies, the headers handed to
\* the transport have Accept: text/xml, Content-Type: text/xml and the
\* Content-MD5 of the serialized body.
C12_HeadersAlways ==
    \A r \in ReqIds :
        LET q == reqs[r] IN
        q.pc = "open"
            => /\ ComputedHeaderNames \subseteq KeySet(q.params.headers)
               /\ Get(q.params.headers, "Accept") = Str("text/xml")
               /\ Get(q.params.headers, "Content-Type") = Str("text/xml")
               /\ Get(q.params.headers, "Content-MD5") = Md5(q.requestData)

\* C12, amended: the headers handed to the transport always have the three
\* names; each of the three that options.headers does not set has the
\* computed value (text/xml, text/xml, the MD5 of the serialized body), and
\* every name options.headers sets has the caller's value.
C12_HeadersMerged ==
    \A r \in ReqIds :
        LET q == reqs[r]
            computed == Headers(q.requestData)
        IN  q.pc = "open"
            => /\ ComputedHeaderNames \subseteq KeySet(q.params.headers)
               /\ \A k \in ComputedHeaderNames \ KeySet(q.options) :
                     Get(q.params.headers, k) = Get(computed, k)
               /\ \A k \in KeySet(q.options) :
                     Get(q.params.headers, k) = Get(q.options, k)

\* A request created with a caller's header beside the three computed ones.
C12_Witness ==
    \E r \in ReqIds :
        /\ reqs[r].pc = "open"
        /\ KeySet(reqs[r].options) = {"X-Request-Id"}
        /\ KeySet(reqs[r].params.headers) = ComputedHeaderNames \cup {"X-Request-Id"}
        /\ Get(reqs[r].params.headers, "Content-MD5") = Md5(reqs[r].requestData)

\* C13: no exception leaves _request or one of its handlers, whatever the
\* input: not for a call without data, not for a decoded body that is not
\* an object.
C13_NoEscape ==
    \A r \in ReqIds : reqs[r].thrown = 0

\* C18: the host named in the string a GET signs is the host the request
\* is sent to, also when the resource declares an overrideHost.
C18_SignedHostIsSentHost ==
    \A r \in ReqIds :
        (reqs[r].pc = "open" /\ reqs[r].method = "GET")
            => reqs[r].signed[2] = reqs[r].params.host

\* C16: the body of a request is written only once the socket assigned to
\* it has emitted the readiness event of the selected transport: 'connect'
\* under http, 'secureConnect' otherwise; never before a socket is
\* assigned, never on the other transport's event.
C16_WriteAfterReady ==
    \A r \in ReqIds :
        LET q == reqs[r] IN
        q.written # <<>>
            => /\ q.socket = "connecting"
               /\ IF q.insecure THEN q.tcp ELSE q.secure
               /\ q.written = <<q.requestData>>

\* An https request whose socket emitted 'connect' and then 'secureConnect',
\* with one body written.
C16_Witness ==
    \E r \in ReqIds :
        /\ ~reqs[r].insecure /\ reqs[r].tcp /\ reqs[r].secure
        /\ reqs[r].written = <<reqs[r].requestData>>

\* C20: once the timeout has aborted a request, or its callback has been
\* invoked, no later event writes its body: a 'connect' or 'secureConnect'
\* that arrives afterwards leaves `written` as it was.
C20_NoWriteAfterAbort ==
    [][\A r \in ReqIds :
          (reqs[r].isAborted \/ Len(reqs[r].calls) > 0)
              => reqs'[r].written = reqs[r].written]_vars

\* The invocation _timeoutHandler makes.
TimeoutCall ==
    Call(ConnectionError("Request aborted due to timeout being reached",
                         RawError("ETIMEDOUT")),
         Null)

\* C15: the step in which the timeout fires sets the aborted flag and
\* invokes the callback with the timeout error only, whether or not abort
\* emits 'error' before it returns; an 'error' on an aborted request
\* invokes nothing; an 'error' on a request whose timeout has not fired
\* invokes the callback with a ConnectionError that wraps the cause.
C15_AbortErrorSuppressed ==
    [][\A r \in ReqIds :
          LET q == reqs[r]
              p == reqs'[r]
          IN  /\ (~q.timedOut /\ p.timedOut)
                    => /\ p.isAborted
                       /\ p.calls = Append(q.calls, TimeoutCall)
              /\ (q.isAborted /\ ~q.errored /\ p.errored)
                    => p.calls = q.calls
              /\ (~q.errored /\ p.errored /\ ~p.timedOut)
                    => \E cause \in Causes :
                          p.calls = Append(q.calls, Call(
                              ConnectionError(
                                  "An error occurred with our connection to AmazonMws",
                                  cause),
                              Null))]_vars

\* A request that timed out and whose transport emitted 'error' because of
\* the abort: the timeout error is the only invocation.
C15_Witness ==
    \E r \in ReqIds :
        /\ reqs[r].timedOut /\ reqs[r].isAborted /\ reqs[r].errored
        /\ reqs[r].calls = <<TimeoutCall>>

\* C14: a request whose transport request has been created is eventually
\* called back, whatever its socket does, also when the socket assigned to
\* it is connected already and never emits a readiness event.
C14_EventuallyCalledBack ==
    \A r \in 1..MaxInFlight :
        (r \in ReqIds /\ reqs[r].pc = "open")
            ~> (r \in ReqIds /\ Len(reqs[r].calls) > 0)

\* A request on a reused socket: no readiness event, nothing written, and
\* the timeout error delivered.
C14_Witness ==
    \E r \in ReqIds :
        /\ reqs[r].socket = "reused"
        /\ reqs[r].written = <<>>
        /\ ~reqs[r].errored
        /\ reqs[r].calls = <<TimeoutCall>>

\* C19: the 'end' listener that hands a parsed ErrorResponse to the
\* callback invokes the callback once, also when the callback throws: the
\* exception does not come back as a second invocation with an APIError.
C19_NoSecondInvocation ==
    [][\A r \in ReqIds :
          LET q == reqs[r]
              p == reqs'[r]
              n == Len(q.calls)
          IN  (/\ q.res = "open" /\ p.res = "ended"
               /\ Len(p.calls) > n
               /\ p.calls[n + 1].result = Null
               /\ p.calls[n + 1].err.t
                     \notin {"AmazonMwsAPIError", "AmazonMwsConnectionError"})
                  => Len(p.calls) = n + 1]_vars

\* What the callback of wrap w is owed once its promise is settled.
Owed(w) ==
    IF w.promise.state = "resolved"
    THEN Call(Null, w.promise.value)
    ELSE Call(w.promise.value, Null)

\* C17: a callback given to wrapTimeout is invoked once per settled
\* promise, with (null, res) on resolution and (err, null) on rejection,
\* and not in the job in which the promise reaction runs but in a later
\* one; without a callback wrapTimeout returns the promise it was given and
\* invokes nothing.
C17_DeferredOnce ==
    /\ [](\A w \in WrapIds :
            LET x == wraps[w] IN
            /\ x.callback
                  => /\ x.returned = "then"
                     /\ x.calls = IF x.timer = "fired" THEN <<Owed(x)>> ELSE <<>>
                     /\ x.timer # "none" => x.reaction = "run"
                     /\ x.reaction # "none" => x.promise.state # "pending"
            /\ ~x.callback
                  => /\ x.returned = "promise"
                     /\ x.calls = <<>>
                     /\ x.timer = "none")
    /\ [][\A w \in WrapIds :
              (wraps[w].reaction = "queued" /\ wraps'[w].reaction = "run")
                  => /\ wraps'[w].calls = <<>>
                     /\ wraps'[w].timer = "armed"]_vars

\* A rejected promise whose callback got (err, null), in the timer's turn.
C17_Witness ==
    \E w \in WrapIds :
        /\ wraps[w].callback
        /\ wraps[w].promise = Rejected(RawError("ECONNRESET"))
        /\ wraps[w].reaction = "run"
        /\ wraps[w].timer = "fired"
        /\ wraps[w].calls = <<Call(RawError("ECONNRESET"), Null)>>

====
